---- MODULE Spec2Model ----
(***************************************************************************)
(* A model of erdpy's smart-contract transaction encoding layer            *)
(* (src/erdpy/contracts.py): the argument codec (_prepare_argument and its *)
(* helpers), CodeMetadata.to_hex, SmartContract.compute_address, the three *)
(* transaction data builders, and the SmartContract facade                 *)
(* (deploy / execute / upgrade / query).                                   *)
(*                                                                         *)
(* Text is modelled as a sequence of one-character strings, so that        *)
(* str.upper, str.startswith, str.isnumeric, int(s, base), hex(n) and      *)
(* base64.b64decode are computed character by character as Python does.    *)
(* The one non-ASCII character of the model, SUPERSCRIPT TWO (U+00B2), is  *)
(* written "SUP2".                                                         *)
(***************************************************************************)
EXTENDS Integers, Sequences, FiniteSets, TLC

VARIABLES
    bytecode,   \* SmartContract.bytecode (hex text)
    metadata,   \* SmartContract.metadata (CodeMetadata)
    address,    \* SmartContract.address (bytes; <<>> is Address(None))
    owner,      \* SmartContract.owner (set by deploy and upgrade)
    caller,     \* SmartContract.caller (set by execute)
    signed,     \* how many transactions were handed to the signer (tx.sign)
    result,     \* what the last call returned or raised
    argument,   \* the codec's input: the value passed to _prepare_argument
    call,       \* the inputs of the last call on the SmartContract
    firstDeployed, \* history: the address the first deploy call assigned
    pc          \* which operation ran last ("init" before any)

vars == <<bytecode, metadata, address, owner, caller, signed, result, argument, call,
          firstDeployed, pc>>

-----------------------------------------------------------------------------
(* Bounds of the model.                                                    *)

\* longest argument text the codec is applied to
MaxArgLen == 4
\* largest integer argument the codec is applied to
MaxInt == 4100
\* longest argument list of one call
MaxArgs == 3
\* longest return-data list of one query response
MaxReturn == 2
\* transactions signed for one SmartContract (deploy, execute and upgrade
\* calls that succeed) in the lifecycle specification
MaxCalls == 3
\* owner public keys are PubKey(0) .. PubKey(MaxSeed)
MaxSeed == 9

-----------------------------------------------------------------------------
(* Characters and Python's text primitives.                                *)

Lower == <<"a","b","c","d","e","f","g","h","i","j","k","l","m",
           "n","o","p","q","r","s","t","u","v","w","x","y","z">>

UpperCase == <<"A","B","C","D","E","F","G","H","I","J","K","L","M",
               "N","O","P","Q","R","S","T","U","V","W","X","Y","Z">>

DecDigits == <<"0","1","2","3","4","5","6","7","8","9">>

LowerHexDigits == <<"0","1","2","3","4","5","6","7","8","9","a","b","c","d","e","f">>

UpperHexDigits == <<"0","1","2","3","4","5","6","7","8","9","A","B","C","D","E","F">>

Range(s) == {s[i] : i \in 1..Len(s)}

IndexOf(c, s) == CHOOSE i \in 1..Len(s) : s[i] = c

\* str.upper on one character: ASCII letters are mapped, everything else
\* (digits, signs, SUP2) is left as it is
UpperChar(c) == IF c \in Range(Lower) THEN UpperCase[IndexOf(c, Lower)] ELSE c

\* str.upper
StrUpper(s) == [i \in 1..Len(s) |-> UpperChar(s[i])]

\* str.startswith
StartsWith(s, p) == Len(s) >= Len(p) /\ SubSeq(s, 1, Len(p)) = p

\* s[n:]
DropFirst(s, n) == SubSeq(s, n + 1, Len(s))

\* the value of a hexadecimal digit (either case), -1 for any other character
HexDigitValue(c) ==
    IF c \in Range(LowerHexDigits) THEN IndexOf(c, LowerHexDigits) - 1
    ELSE IF c \in Range(UpperHexDigits) THEN IndexOf(c, UpperHexDigits) - 1
    ELSE -1

IsHexDigit(c) == HexDigitValue(c) >= 0

RECURSIVE HexValue(_)
\* the base-16 reading of a text of hexadecimal digits
HexValue(h) ==
    IF Len(h) = 0 THEN 0
    ELSE 16 * HexValue(SubSeq(h, 1, Len(h) - 1)) + HexDigitValue(h[Len(h)])

IsDecDigit(c) == c \in Range(DecDigits)

\* str.isnumeric: non-empty and every character has the Unicode numeric
\* property; SUPERSCRIPT TWO has it, the ASCII signs and letters do not
IsNumeric(s) == Len(s) > 0 /\ \A i \in 1..Len(s) : IsDecDigit(s[i]) \/ s[i] = "SUP2"

RECURSIVE DecValue(_)
\* the base-10 reading of a text of decimal digits
DecValue(s) ==
    IF Len(s) = 0 THEN 0
    ELSE 10 * DecValue(SubSeq(s, 1, Len(s) - 1)) + (IndexOf(s[Len(s)], DecDigits) - 1)

\* int(s): of a text that passed isnumeric, the decimal reading; a numeric
\* character that is no decimal digit (SUP2) makes int raise ValueError
ParseDecimal(s) ==
    IF \A i \in 1..Len(s) : IsDecDigit(s[i])
    THEN [raised |-> "", value |-> DecValue(s)]
    ELSE [raised |-> "ValueError", value |-> 0]

RECURSIVE HexOfPositive(_)
HexOfPositive(n) ==
    IF n = 0 THEN <<>> ELSE Append(HexOfPositive(n \div 16), LowerHexDigits[(n % 16) + 1])

\* hex(n)[len("0X"):] for n >= 0: lowercase digits, "0" for zero
HexOf(n) == IF n = 0 THEN <<"0">> ELSE HexOfPositive(n)

RECURSIVE DecOfPositive(_)
DecOfPositive(n) ==
    IF n = 0 THEN <<>> ELSE Append(DecOfPositive(n \div 10), DecDigits[(n % 10) + 1])

\* str(n) of an integer
IntToStr(n) ==
    IF n = 0 THEN <<"0">>
    ELSE IF n < 0 THEN <<"-">> \o DecOfPositive(-n)
    ELSE DecOfPositive(n)

\* s.strip() for the one whitespace character of the model
RECURSIVE LStrip(_)
LStrip(s) == IF Len(s) > 0 /\ s[1] = " " THEN LStrip(Tail(s)) ELSE s

RECURSIVE RStrip(_)
RStrip(s) == IF Len(s) > 0 /\ s[Len(s)] = " " THEN RStrip(SubSeq(s, 1, Len(s) - 1)) ELSE s

\* the digit part of an integer literal in base 16: hexadecimal digits, with
\* single underscores allowed between two digits
HexDigitsWithUnderscores(s) ==
    /\ Len(s) > 0
    /\ \A i \in 1..Len(s) : IsHexDigit(s[i]) \/ s[i] = "_"
    /\ IsHexDigit(s[1])
    /\ IsHexDigit(s[Len(s)])
    /\ \A i \in 1..(Len(s) - 1) : ~(s[i] = "_" /\ s[i + 1] = "_")

\* whether int(s, 16) returns (rather than raises ValueError): Python strips
\* whitespace, takes an optional sign, an optional 0x/0X prefix (after which
\* one underscore may stand), then the digits
IntBase16Accepts(s) ==
    LET t == RStrip(LStrip(s))
        u == IF Len(t) > 0 /\ t[1] \in {"+", "-"} THEN Tail(t) ELSE t
        prefixed == Len(u) >= 2 /\ u[1] = "0" /\ u[2] \in {"x", "X"}
        v == IF prefixed THEN DropFirst(u, 2) ELSE u
        w == IF prefixed /\ Len(v) > 0 /\ v[1] = "_" THEN Tail(v) ELSE v
    IN  HexDigitsWithUnderscores(w)

-----------------------------------------------------------------------------
(* The argument codec.                                                     *)

HEX_PREFIX == <<"0", "X">>

\* a Python value passed as an argument: an int or a str
IntArg(n) == [kind |-> "int", number |-> n, text |-> <<>>]

StrArg(t) == [kind |-> "str", number |-> 0, text |-> t]

\* str(argument)
PyStr(a) == IF a.kind = "int" THEN IntToStr(a.number) ELSE a.text

Returned(v) == [raised |-> "", value |-> v]

Raised(e) == [raised |-> e, value |-> <<>>]

\* mutant: the padding is forgotten
ensure_even_length_unpadded(string) == string

ensure_even_length(string) ==
    IF Len(string) % 2 = 1 THEN <<"0">> \o string ELSE string

prepare_hexadecimal(arg) ==
    LET stripped == DropFirst(arg, Len(HEX_PREFIX))
        padded == ensure_even_length(stripped)
    IN  IF IntBase16Accepts(padded)
        THEN Returned(padded)
        ELSE Raised("UnknownArgumentFormat")

\* mutant: the number is written in decimal instead of hexadecimal
prepare_decimal_not_hex(arg) ==
    IF ~IsNumeric(arg) THEN Raised("UnknownArgumentFormat")
    ELSE LET as_number == ParseDecimal(arg)
         IN  IF as_number.raised # ""
             THEN Raised(as_number.raised)
             ELSE Returned(ensure_even_length(IntToStr(as_number.value)))

prepare_decimal(arg) ==
    IF ~IsNumeric(arg) THEN Raised("UnknownArgumentFormat")
    ELSE LET as_number == ParseDecimal(arg)
         IN  IF as_number.raised # ""
             THEN Raised(as_number.raised)
             ELSE Returned(ensure_even_length(HexOf(as_number.value)))

prepare_argument(a) ==
    LET as_string == StrUpper(PyStr(a))
    IN  IF StartsWith(as_string, HEX_PREFIX)
        THEN prepare_hexadecimal(as_string)
        ELSE prepare_decimal(as_string)

-----------------------------------------------------------------------------
(* CodeMetadata and the transaction data builders.                         *)

CodeMetadata(upgradeable, payable) == [upgradeable |-> upgradeable, payable |-> payable]

\* CodeMetadata.to_hex
to_hex(m) ==
    (IF m.upgradeable THEN <<"0", "1">> ELSE <<"0", "0">>)
        \o (IF m.payable THEN <<"0", "2">> ELSE <<"0", "0">>)

\* constants.VM_TYPE_WASM_VM: the 2-byte VM-type marker 0x05 0x00 as hex text
VM_TYPE_WASM_VM == <<"0", "5", "0", "0">>

UPGRADE_FUNCTION == <<"u","p","g","r","a","d","e","C","o","n","t","r","a","c","t">>

RECURSIVE append_arguments_last_first(_, _)
\* mutant: the arguments are appended last first
append_arguments_last_first(tx_data, arguments) ==
    IF Len(arguments) = 0 THEN Returned(tx_data)
    ELSE LET prepared == prepare_argument(arguments[Len(arguments)])
         IN  IF prepared.raised # ""
             THEN Raised(prepared.raised)
             ELSE append_arguments_last_first(tx_data \o <<"@">> \o prepared.value,
                                              SubSeq(arguments, 1, Len(arguments) - 1))

RECURSIVE append_arguments(_, _)
\* for arg in arguments: tx_data += f"@{_prepare_argument(arg)}"
\* the first argument that cannot be prepared raises out of the loop
append_arguments(tx_data, arguments) ==
    IF Len(arguments) = 0 THEN Returned(tx_data)
    ELSE LET prepared == prepare_argument(Head(arguments))
         IN  IF prepared.raised # ""
             THEN Raised(prepared.raised)
             ELSE append_arguments(tx_data \o <<"@">> \o prepared.value, Tail(arguments))

prepare_deploy_transaction_data(code, meta, arguments) ==
    append_arguments(code \o <<"@">> \o VM_TYPE_WASM_VM \o <<"@">> \o to_hex(meta), arguments)

prepare_execute_transaction_data(function, arguments) ==
    append_arguments(function, arguments)

prepare_upgrade_transaction_data(code, meta, arguments) ==
    append_arguments(UPGRADE_FUNCTION \o <<"@">> \o code \o <<"@">> \o to_hex(meta), arguments)

-----------------------------------------------------------------------------
(* Address derivation.                                                     *)

RECURSIVE to_bytes_little(_, _)
\* n.to_bytes(length, byteorder="little")
to_bytes_little(n, length) ==
    IF length = 0 THEN <<>> ELSE <<n % 256>> \o to_bytes_little(n \div 256, length - 1)

RECURSIVE Absorb(_, _)
Absorb(h, bytes) ==
    IF Len(bytes) = 0 THEN h ELSE Absorb((h * 31 + Head(bytes) + 1) % 65521, Tail(bytes))

\* keccak.new(digest_bits=256).update(bytes).digest(): the library's hash,
\* stood for by a fixed function from byte strings to 32 bytes that depends
\* on every byte of its input
Keccak256(bytes) ==
    LET h == Absorb(17, bytes)
    IN  [i \in 1..32 |-> ((h + i) * ((h % 251) + 7 * i + 3)) % 256]

\* Address.zero().pubkey()
ZeroAddress == [i \in 1..32 |-> 0]

\* mutant: the first 20 bytes of the digest are taken instead of bytes 10..30
compute_address_first_twenty(o) ==
    LET owner_bytes == o.pubkey
        digest == Keccak256(owner_bytes \o to_bytes_little(o.nonce, 8))
    IN  [i \in 1..8 |-> 0] \o <<5, 0>> \o SubSeq(digest, 1, 20) \o DropFirst(owner_bytes, 30)

\* mutant: the nonce is left out of the hashed bytes
compute_address_without_nonce(o) ==
    LET owner_bytes == o.pubkey
        digest == Keccak256(owner_bytes)
    IN  [i \in 1..8 |-> 0] \o <<5, 0>> \o SubSeq(digest, 11, 30) \o DropFirst(owner_bytes, 30)

\* SmartContract.compute_address: the value assigned to self.address
compute_address(o) ==
    LET owner_bytes == o.pubkey
        nonce_bytes == to_bytes_little(o.nonce, 8)
        bytes_to_hash == owner_bytes \o nonce_bytes
        digest == Keccak256(bytes_to_hash)
    IN  [i \in 1..8 |-> 0] \o <<5, 0>> \o SubSeq(digest, 11, 30) \o DropFirst(owner_bytes, 30)

-----------------------------------------------------------------------------
(* Decoding of query return data.                                          *)

B64Alphabet == UpperCase \o Lower \o DecDigits \o <<"+", "/">>

RECURSIVE a2b_base64(_, _, _, _, _)
\* binascii.a2b_base64 in its default, non-strict mode: characters outside the
\* alphabet are skipped, a pad sequence that completes a quad ends the input,
\* and data left in an incomplete quad raises binascii.Error
a2b_base64(data, quad_pos, leftchar, pads, out) ==
    IF Len(data) = 0
    THEN IF quad_pos # 0 THEN Raised("binascii.Error") ELSE Returned(out)
    ELSE LET c == Head(data)
         IN  IF c = "="
             THEN IF quad_pos >= 2 /\ quad_pos + pads + 1 >= 4
                  THEN Returned(out)
                  ELSE a2b_base64(Tail(data), quad_pos, leftchar,
                                  IF quad_pos >= 2 THEN pads + 1 ELSE pads, out)
             ELSE IF c \notin Range(B64Alphabet)
             THEN a2b_base64(Tail(data), quad_pos, leftchar, pads, out)
             ELSE LET v == IndexOf(c, B64Alphabet) - 1
                  IN  CASE quad_pos = 0 -> a2b_base64(Tail(data), 1, v, 0, out)
                        [] quad_pos = 1 ->
                            a2b_base64(Tail(data), 2, v % 16, 0,
                                       Append(out, leftchar * 4 + (v \div 16)))
                        [] quad_pos = 2 ->
                            a2b_base64(Tail(data), 3, v % 4, 0,
                                       Append(out, leftchar * 16 + (v \div 4)))
                        [] OTHER ->
                            a2b_base64(Tail(data), 0, 0, 0, Append(out, leftchar * 64 + v))

\* base64.b64decode(data) of a str: non-ASCII text raises ValueError
b64decode(data) ==
    IF "SUP2" \in Range(data) THEN Raised("ValueError")
    ELSE a2b_base64(data, 0, 0, 0, <<>>)

RECURSIVE bytes_hex(_)
\* bytes.hex()
bytes_hex(bytes) ==
    IF Len(bytes) = 0 THEN <<>>
    ELSE <<LowerHexDigits[(Head(bytes) \div 16) + 1], LowerHexDigits[(Head(bytes) % 16) + 1]>>
            \o bytes_hex(Tail(bytes))

\* the three shapes _interpret_return_data returns: the falsy data itself,
\* a QueryResult, or None
RawData(data) == [tag |-> "data", base64 |-> data, hex |-> <<>>, number |-> 0]

QueryResult(as_base64, as_hex, as_number) ==
    [tag |-> "QueryResult", base64 |-> as_base64, hex |-> as_hex, number |-> as_number]

None == [tag |-> "None", base64 |-> <<>>, hex |-> <<>>, number |-> 0]

interpret_return_data(data) ==
    IF Len(data) = 0 THEN RawData(data)
    ELSE LET as_bytes == b64decode(data)
         IN  IF as_bytes.raised # "" THEN None
             ELSE LET as_hex == bytes_hex(as_bytes.value)
                  IN  IF ~IntBase16Accepts(as_hex) THEN None
                      ELSE QueryResult(data, as_hex, HexValue(as_hex))

RECURSIVE interpret_until_failure(_)
\* mutant: the list stops at the first entry that cannot be interpreted
interpret_until_failure(return_data) ==
    IF Len(return_data) = 0 THEN <<>>
    ELSE LET first == interpret_return_data(Head(return_data))
         IN  IF first = None THEN <<>>
             ELSE <<first>> \o interpret_until_failure(Tail(return_data))

\* [self._interpret_return_data(data) for data in return_data]
interpret_all(return_data) ==
    [i \in 1..Len(return_data) |-> interpret_return_data(return_data[i])]

-----------------------------------------------------------------------------
(* The SmartContract facade.                                               *)

\* config.DEFAULT_GAS_PRICE
DEFAULT_GAS_PRICE == 1000000000

\* before deploy, upgrade or execute ran, the object has no owner or caller
NoAccount == [pubkey |-> <<>>, nonce |-> -1]

\* response["data"] of the proxy's answer, under either spelling of the key
Response(lower_key, upper_key) == [returnData |-> lower_key, ReturnData |-> upper_key]

NoResponse == Response(<<>>, <<>>)

CallInputs(account, function, arguments, gas_price, value, response) ==
    [account |-> account, function |-> function, arguments |-> arguments,
     gas_price |-> gas_price, value |-> value, response |-> response]

NoCall == CallInputs(NoAccount, <<>>, <<>>, 0, 0, NoResponse)

NoTx == [nonce |-> -1, value |-> <<>>, sender |-> <<>>, receiver |-> <<>>,
         gasPrice |-> 0, gasLimit |-> 0, data |-> <<>>, chainID |-> "",
         version |-> 0, signer |-> <<>>]

\* what a call hands back: a signed transaction, a list of query results,
\* the encoded text (the codec alone), or the exception it raised
Outcome(op, raised, value, tx, list) ==
    [op |-> op, raised |-> raised, value |-> value, tx |-> tx, list |-> list]

\* tx.sign(account): the signer collaborator receives the transaction
Sign(tx, account) == [tx EXCEPT !.signer = account.pubkey]

\* mutant: the transaction carries the nonce that follows the owner's
deploy_transaction_next_nonce(o, data, gas_price, gas_limit, value, chain, version) ==
    [nonce |-> o.nonce + 1, value |-> IntToStr(value), sender |-> o.pubkey,
     receiver |-> ZeroAddress, gasPrice |-> gas_price, gasLimit |-> gas_limit,
     data |-> data, chainID |-> chain, version |-> version, signer |-> <<>>]

\* the Transaction deploy fills in (addresses are kept as their bytes; bech32
\* is the collaborator's one-to-one text form of them)
deploy_transaction(o, data, gas_price, gas_limit, value, chain, version) ==
    [nonce |-> o.nonce, value |-> IntToStr(value), sender |-> o.pubkey,
     receiver |-> ZeroAddress, gasPrice |-> gas_price, gasLimit |-> gas_limit,
     data |-> data, chainID |-> chain, version |-> version, signer |-> <<>>]

\* the Transaction execute and upgrade fill in
call_transaction(account, receiver, data, gas_price, gas_limit, value, chain, version) ==
    [nonce |-> account.nonce, value |-> IntToStr(value), sender |-> account.pubkey,
     receiver |-> receiver, gasPrice |-> gas_price, gasLimit |-> gas_limit,
     data |-> data, chainID |-> chain, version |-> version, signer |-> <<>>]

deploy(o, arguments, gas_price, gas_limit, value, chain, version) ==
    LET tx_data == prepare_deploy_transaction_data(bytecode, metadata, arguments)
        tx == deploy_transaction(o, tx_data.value, gas_price, gas_limit, value, chain, version)
    IN  /\ owner' = o
        /\ address' = compute_address(o)
        /\ IF tx_data.raised # ""
           THEN /\ result' = Outcome("deploy", tx_data.raised, <<>>, NoTx, <<>>)
                /\ signed' = signed
           ELSE /\ result' = Outcome("deploy", "", <<>>, Sign(tx, o), <<>>)
                /\ signed' = signed + 1
        /\ call' = CallInputs(o, <<>>, arguments, gas_price, value, NoResponse)
        /\ firstDeployed' = IF firstDeployed = <<>> THEN address' ELSE firstDeployed
        /\ pc' = "deploy"
        /\ UNCHANGED <<bytecode, metadata, caller, argument>>

execute(c, function, arguments, gas_price, gas_limit, value, chain, version) ==
    LET tx_data == prepare_execute_transaction_data(function, arguments)
        tx == call_transaction(c, address, tx_data.value, gas_price, gas_limit,
                               value, chain, version)
    IN  /\ caller' = c
        /\ IF tx_data.raised # ""
           THEN /\ result' = Outcome("execute", tx_data.raised, <<>>, NoTx, <<>>)
                /\ signed' = signed
           ELSE /\ result' = Outcome("execute", "", <<>>, Sign(tx, c), <<>>)
                /\ signed' = signed + 1
        /\ call' = CallInputs(c, function, arguments, gas_price, value, NoResponse)
        /\ pc' = "execute"
        /\ UNCHANGED <<bytecode, metadata, address, owner, argument, firstDeployed>>

upgrade(o, arguments, gas_price, gas_limit, value, chain, version) ==
    LET tx_data == prepare_upgrade_transaction_data(bytecode, metadata, arguments)
        price == IF gas_price = 0 THEN DEFAULT_GAS_PRICE ELSE gas_price
        tx == call_transaction(o, address, tx_data.value, price, gas_limit,
                               value, chain, version)
    IN  /\ owner' = o
        /\ IF tx_data.raised # ""
           THEN /\ result' = Outcome("upgrade", tx_data.raised, <<>>, NoTx, <<>>)
                /\ signed' = signed
           ELSE /\ result' = Outcome("upgrade", "", <<>>, Sign(tx, o), <<>>)
                /\ signed' = signed + 1
        /\ call' = CallInputs(o, <<>>, arguments, gas_price, value, NoResponse)
        /\ pc' = "upgrade"
        /\ UNCHANGED <<bytecode, metadata, address, caller, argument, firstDeployed>>

\* query_detailed prepares the arguments (the first that cannot be prepared
\* raises), then the proxy answers; response stands for response["data"],
\* a key it lacks reading as the empty list
query(function, arguments, response) ==
    LET prepared_arguments == append_arguments(<<>>, arguments)
        return_data == IF Len(response.returnData) # 0
                       THEN response.returnData ELSE response.ReturnData
    IN  /\ IF prepared_arguments.raised # ""
           THEN result' = Outcome("query", prepared_arguments.raised, <<>>, NoTx, <<>>)
           ELSE result' = Outcome("query", "", <<>>, NoTx, interpret_all(return_data))
        /\ call' = CallInputs(NoAccount, function, arguments, 0, 0, response)
        /\ pc' = "query"
        /\ UNCHANGED <<bytecode, metadata, address, owner, caller, signed, argument, firstDeployed>>

-----------------------------------------------------------------------------
(* The codec applied to one argument.                                      *)

ArgChars == {"0", "1", "9", "a", "F", "x", "X", "-", "_", "g", " ", "SUP2"}

ArgTexts == UNION {[1..n -> ArgChars] : n \in 0..MaxArgLen}

ArgInts == (-3)..MaxInt

NoResult == Outcome("none", "", <<>>, NoTx, <<>>)

NoArgument == StrArg(<<>>)

InitCodec ==
    /\ argument \in {StrArg(t) : t \in ArgTexts} \cup {IntArg(n) : n \in ArgInts}
    /\ bytecode = <<>>
    /\ metadata = [upgradeable |-> TRUE, payable |-> FALSE]
    /\ address = <<>>
    /\ owner = NoAccount
    /\ caller = NoAccount
    /\ signed = 0
    /\ result = NoResult
    /\ call = NoCall
    /\ firstDeployed = <<>>
    /\ pc = "init"

Encode ==
    /\ pc = "init"
    /\ LET r == prepare_argument(argument)
       IN  result' = Outcome("encode", r.raised, r.value, NoTx, <<>>)
    /\ pc' = "encode"
    /\ UNCHANGED <<bytecode, metadata, address, owner, caller, signed, argument, call,
                   firstDeployed>>

NextCodec == Encode

SpecCodec == InitCodec /\ [][NextCodec]_vars

-----------------------------------------------------------------------------
(* Inputs of the facade specifications.                                    *)

\* a 32-byte public key
PubKey(seed) == [i \in 1..32 |-> (seed * 37 + i * 11 + 5) % 256]

Account(seed, nonce) == [pubkey |-> PubKey(seed), nonce |-> nonce]

Text_AABB == <<"A", "A", "B", "B">>

Text_add == <<"a", "d", "d">>

\* an address given to the constructor: that of a contract deployed earlier
PresetAddress == compute_address(Account(7, 41))

Metadatas == {CodeMetadata(u, p) : u \in BOOLEAN, p \in BOOLEAN}

\* gas price and value of a call, as <<gas_price, value>>
Fees == {<<0, 0>>, <<1000, 10>>}

GasLimit == 50000

ChainID == "T"

TxVersion == 1

\* arguments of the calls: integers and texts, well-formed and not
ArgPool ==
    {IntArg(5), IntArg(2), IntArg(3), IntArg(255),
     StrArg(<<"0", "X", "F", "F">>), StrArg(<<"0", "x", "a">>),
     StrArg(<<"-", "5">>), StrArg(<<"0", "x", "-", "1">>), StrArg(<<"0", "x", "g">>)}

ArgLists == UNION {[1..n -> ArgPool] : n \in 0..MaxArgs}

\* entries of a query response: base64 texts, valid and not
EntryPool ==
    {<<>>, <<"A", "Q", "=", "=">>, <<"/", "/", "8", "=">>, <<"A", "A", "E", "A">>,
     <<"!", "!">>, <<"A">>, <<"A", "Q", "=">>, <<"=", "=", "=", "=">>}

EntryLists == UNION {[1..n -> EntryPool] : n \in 0..MaxReturn}

Responses == {Response(l, <<>>) : l \in EntryLists} \cup {Response(<<>>, l) : l \in EntryLists}

\* SmartContract(address, bytecode, metadata) after construction
Constructed(addr, code, meta) ==
    /\ address = addr
    /\ bytecode = code
    /\ metadata = meta
    /\ owner = NoAccount
    /\ caller = NoAccount
    /\ signed = 0
    /\ result = NoResult
    /\ argument = NoArgument
    /\ firstDeployed = <<>>
    /\ pc = "init"

-----------------------------------------------------------------------------
(* SpecBuild: one call on a freshly constructed SmartContract, over every  *)
(* argument list up to MaxArgs and every response up to MaxReturn.         *)

InitBuild ==
    /\ \E addr \in {<<>>, PresetAddress}, meta \in Metadatas :
        Constructed(addr, Text_AABB, meta)
    /\ call = NoCall

BuildDeploy ==
    /\ pc = "init"
    /\ \E arguments \in ArgLists, fee \in Fees :
        deploy(Account(0, 1), arguments, fee[1], GasLimit, fee[2], ChainID, TxVersion)

BuildExecute ==
    /\ pc = "init"
    /\ \E arguments \in ArgLists, fee \in Fees :
        execute(Account(1, 258), Text_add, arguments, fee[1], GasLimit, fee[2],
                ChainID, TxVersion)

BuildUpgrade ==
    /\ pc = "init"
    /\ \E arguments \in ArgLists, fee \in Fees :
        upgrade(Account(0, 1), arguments, fee[1], GasLimit, fee[2], ChainID, TxVersion)

BuildQuery ==
    /\ pc = "init"
    /\ \E arguments \in {<<>>, <<IntArg(5)>>, <<IntArg(5), StrArg(<<"-", "5">>)>>},
          response \in Responses :
        query(Text_add, arguments, response)

NextBuild == BuildDeploy \/ BuildExecute \/ BuildUpgrade \/ BuildQuery

SpecBuild == InitBuild /\ [][NextBuild]_vars

-----------------------------------------------------------------------------
(* Spec: the life of one SmartContract, a sequence of calls.               *)

Accounts == {Account(0, 1), Account(0, 258), Account(1, 1)}

LifeArgLists ==
    {<<>>, <<IntArg(5), StrArg(<<"0", "X", "F", "F">>)>>, <<IntArg(5), StrArg(<<"-", "5">>)>>}

LifeResponses == {Response(<<<<"A", "Q", "=", "=">>, <<"!", "!">>>>, <<>>)}

Init ==
    /\ \E addr \in {<<>>, PresetAddress} :
        Constructed(addr, Text_AABB, CodeMetadata(TRUE, FALSE))
    /\ call = NoCall

Deploy ==
    /\ signed < MaxCalls
    /\ \E o \in Accounts, arguments \in LifeArgLists :
        deploy(o, arguments, 1000, GasLimit, 0, ChainID, TxVersion)

Execute ==
    /\ signed < MaxCalls
    /\ \E c \in Accounts, arguments \in LifeArgLists :
        execute(c, Text_add, arguments, 1000, GasLimit, 0, ChainID, TxVersion)

Upgrade ==
    /\ signed < MaxCalls
    /\ \E o \in Accounts, arguments \in LifeArgLists :
        upgrade(o, arguments, 0, GasLimit, 0, ChainID, TxVersion)

Query ==
    \E arguments \in LifeArgLists, response \in LifeResponses :
        query(Text_add, arguments, response)

Next == Deploy \/ Execute \/ Upgrade \/ Query

Spec == Init /\ [][Next]_vars

-----------------------------------------------------------------------------
(* SpecAddress: compute_address for every owner key and nonce of the model. *)

Nonces == {0, 1, 258, 65537, 16777216, 2147483647}

InitAddress ==
    /\ Constructed(<<>>, Text_AABB, CodeMetadata(TRUE, FALSE))
    /\ call \in {CallInputs(Account(seed, nonce), <<>>, <<>>, 0, 0, NoResponse) :
                     seed \in 0..MaxSeed, nonce \in Nonces}

\* self.owner = owner; self.compute_address()
ComputeAddress ==
    /\ owner' = call.account
    /\ address' = compute_address(call.account)
    /\ pc' = "compute_address"
    /\ UNCHANGED <<bytecode, metadata, caller, signed, result, argument, call, firstDeployed>>

NextAddress == ComputeAddress

SpecAddress == InitAddress /\ [][NextAddress]_vars

-----------------------------------------------------------------------------
(* Properties of the codec (SpecCodec).                                    *)

IsHexText(h) == Len(h) > 0 /\ \A i \in 1..Len(h) : IsHexDigit(h[i])

IsDecText(t) == Len(t) > 0 /\ \A i \in 1..Len(t) : IsDecDigit(t[i])

HasHexPrefix(t) == Len(t) >= 2 /\ t[1] = "0" /\ t[2] \in {"x", "X"}

Encoded == pc = "encode"

\* the text of the encoded argument, as the caller wrote it
ArgText == PyStr(argument)

\* C6: encode rejects with the malformed-argument error (UnknownArgumentFormat)
\* a signed decimal text, a text under the 0X prefix whose remainder is not
\* hexadecimal (the empty remainder included) and a text without the prefix
\* that is not all decimal digits; it returns nothing for such an input.
C6_RejectsMalformed ==
    Encoded =>
        LET malformed ==
                IF HasHexPrefix(ArgText)
                THEN ~IsHexText(DropFirst(ArgText, 2))
                ELSE ~IsDecText(ArgText)
        IN  malformed => result.raised = "UnknownArgumentFormat"

\* C7 as claimed: for a hex string h, encode("0X" + h) and encode("0x" + h)
\* return h itself when h has even length and "0" + h when it has odd length.
C7_ReturnsItself ==
    (Encoded /\ argument.kind = "str" /\ HasHexPrefix(ArgText)
             /\ IsHexText(DropFirst(ArgText, 2))) =>
        /\ result.raised = ""
        /\ result.value = (IF Len(DropFirst(ArgText, 2)) % 2 = 0 THEN <<>> ELSE <<"0">>)
                                \o DropFirst(ArgText, 2)

\* C7 as amended: for a hex string h, encode("0X" + h) and encode("0x" + h)
\* return h with its letters in upper case when h has even length, and "0"
\* followed by that when h has odd length; the result has even length, is
\* made of hexadecimal digits only and so carries no prefix.
C7_ReturnsUppercased ==
    (Encoded /\ argument.kind = "str" /\ HasHexPrefix(ArgText)
             /\ IsHexText(DropFirst(ArgText, 2))) =>
        LET h == DropFirst(ArgText, 2)
        IN  /\ result.raised = ""
            /\ result.value = (IF Len(h) % 2 = 0 THEN <<>> ELSE <<"0">>) \o StrUpper(h)
            /\ Len(result.value) % 2 = 0
            /\ IsHexText(result.value)
            /\ ~HasHexPrefix(result.value)

\* an odd-length hex literal with a lower-case digit was encoded: 0xa
C7_Witness ==
    /\ Encoded
    /\ argument = StrArg(<<"0", "x", "a">>)
    /\ result.raised = ""
    /\ result.value = <<"0", "A">>

\* C8: for every integer n >= 0, encode(n) is an even-length text of
\* hexadecimal digits, without prefix, whose base-16 reading is n.
C8_RoundTrip ==
    (Encoded /\ argument.kind = "int" /\ argument.number >= 0) =>
        /\ result.raised = ""
        /\ Len(result.value) % 2 = 0
        /\ IsHexText(result.value)
        /\ ~HasHexPrefix(result.value)
        /\ HexValue(result.value) = argument.number

\* 256, whose minimal hex form "100" has odd length, was encoded as "0100"
C8_Witness ==
    /\ Encoded
    /\ argument = IntArg(256)
    /\ result.value = <<"0", "1", "0", "0">>

-----------------------------------------------------------------------------
(* Properties of address derivation (SpecAddress, Spec).                   *)

\* the address layout: 8 zero bytes, the VM marker 05 00, bytes [10..30) of
\* the hash of pubkey || 8-byte little-endian nonce, bytes [30..32) of pubkey
ExpectedAddress(pubkey, nonce) ==
    LET digest == Keccak256(pubkey \o to_bytes_little(nonce, 8))
    IN  [i \in 1..32 |->
            IF i <= 8 THEN 0
            ELSE IF i = 9 THEN 5
            ELSE IF i = 10 THEN 0
            ELSE IF i <= 30 THEN digest[i]
            ELSE pubkey[i]]

\* C9: the derived address is 32 bytes long, bytes [0..8) are zero, bytes
\* [8..10) are 05 00, bytes [10..30) are those of the hash of the public key
\* followed by the 8-byte little-endian nonce, bytes [30..32) are those of
\* the owner's public key; being this function of the key and the nonce, it
\* is the same on every call with the same inputs.
C9_AddressLayout ==
    pc = "compute_address" =>
        LET digest == Keccak256(owner.pubkey \o to_bytes_little(owner.nonce, 8))
        IN  /\ Len(address) = 32
            /\ \A i \in 1..8 : address[i] = 0
            /\ address[9] = 5 /\ address[10] = 0
            /\ \A i \in 11..30 : address[i] = digest[i]
            /\ address[31] = owner.pubkey[31] /\ address[32] = owner.pubkey[32]
            /\ address = ExpectedAddress(call.account.pubkey, call.account.nonce)

\* an address was derived for a nonce of more than one byte
C9_Witness ==
    /\ pc = "compute_address"
    /\ owner = Account(3, 258)
    /\ Len(address) = 32
    /\ address[32] = PubKey(3)[32]

\* C1 as claimed: once the first deploy has assigned the address, every later
\* call (execute, upgrade, query, another deploy) leaves it equal to that value.
C1_AddressWrittenOnce == firstDeployed # <<>> => address = firstDeployed

\* C1 as amended: the address changes in deploy calls only; execute, upgrade
\* and query leave it as it is, and every deploy call, the first or a later
\* one, overwrites it with the address derived from that call's owner key and
\* nonce.
C1_AddressWrittenByEachDeploy ==
    [][IF pc' = "deploy"
       THEN address' = ExpectedAddress(call'.account.pubkey, call'.account.nonce)
       ELSE address' = address]_vars

\* a second deploy, which succeeded, replaced the address of the first
C1_Witness ==
    /\ pc = "deploy"
    /\ result.raised = ""
    /\ signed >= 2
    /\ firstDeployed # <<>>
    /\ address # firstDeployed
    /\ address = ExpectedAddress(owner.pubkey, owner.nonce)

\* C2: in every deploy that builds a transaction, the nonce serialized into
\* the address derivation is the nonce of the transaction handed to the signer.
C2_SameNonce ==
    (pc = "deploy" /\ result.raised = "") =>
        /\ result.tx.nonce = call.account.nonce
        /\ address = ExpectedAddress(result.tx.sender, result.tx.nonce)

\* a deploy by an owner whose nonce is 258 was signed
C2_Witness ==
    /\ pc = "deploy"
    /\ result.raised = ""
    /\ result.tx.nonce = 258
    /\ signed >= 1
    /\ address = ExpectedAddress(PubKey(0), 258)

\* C10: a deploy that fails because an argument cannot be encoded leaves the
\* SmartContract's address as it was before the call.
C10_FailedDeployKeepsAddress ==
    [][(pc' = "deploy" /\ result'.raised # "") => address' = address]_vars

-----------------------------------------------------------------------------
(* Properties of the transaction builders and of query (SpecBuild).        *)

\* an argument the codec's contract says cannot be encoded: under the prefix
\* the remainder is not hexadecimal, without it the text is not decimal digits
Malformed(a) ==
    IF HasHexPrefix(PyStr(a))
    THEN ~IsHexText(DropFirst(PyStr(a), 2))
    ELSE ~IsDecText(PyStr(a))

BuiltTransaction == pc \in {"deploy", "execute", "upgrade"}

\* C4: when one argument of deploy, execute or upgrade cannot be encoded,
\* whatever its position, the build aborts with the malformed-argument error
\* (UnknownArgumentFormat): no transaction is signed and none is returned.
C4_MalformedArgumentAborts ==
    (BuiltTransaction /\ \E k \in 1..Len(call.arguments) : Malformed(call.arguments[k])) =>
        /\ result.raised = "UnknownArgumentFormat"
        /\ result.tx = NoTx
        /\ signed = 0

RECURSIVE EncodedFields(_)
\* "@" + encode(arg) for every argument, in call order
EncodedFields(arguments) ==
    IF Len(arguments) = 0 THEN <<>>
    ELSE <<"@">> \o prepare_argument(Head(arguments)).value \o EncodedFields(Tail(arguments))

\* the part of the data string that precedes the arguments
DataHead ==
    CASE pc = "deploy" -> bytecode \o <<"@">> \o VM_TYPE_WASM_VM \o <<"@">> \o to_hex(metadata)
      [] pc = "execute" -> call.function
      [] pc = "upgrade" -> UPGRADE_FUNCTION \o <<"@">> \o bytecode \o <<"@">> \o to_hex(metadata)

CountOf(c, text) == Cardinality({i \in 1..Len(text) : text[i] = c})

\* the data of every built transaction is its head followed by the encoded
\* arguments in call order, one field for each
DataFormat ==
    (BuiltTransaction /\ result.raised = "") =>
        /\ result.tx.data = DataHead \o EncodedFields(call.arguments)
        /\ CountOf("@", result.tx.data) = CountOf("@", DataHead) + Len(call.arguments)

DeployExampleCalled ==
    /\ pc = "deploy"
    /\ bytecode = Text_AABB
    /\ metadata = CodeMetadata(TRUE, FALSE)
    /\ call.arguments = <<IntArg(5), StrArg(<<"0", "X", "F", "F">>)>>

ExecuteExample ==
    (pc = "execute" /\ call.function = Text_add /\ call.arguments = <<IntArg(2), IntArg(3)>>) =>
        result.tx.data = <<"a", "d", "d", "@", "0", "2", "@", "0", "3">>

\* C5 as claimed: the data format, with deploy data for bytecode "AABB",
\* metadata (true, false) and arguments [5, "0XFF"] equal to
\* "AABB@<vmMarker>@0100@05@ff" and execute data for "add" with [2, 3] equal
\* to "add@02@03".
C5_DataAsClaimed ==
    /\ DataFormat
    /\ ExecuteExample
    /\ DeployExampleCalled =>
        result.tx.data = Text_AABB \o <<"@">> \o VM_TYPE_WASM_VM
                            \o <<"@", "0", "1", "0", "0", "@", "0", "5", "@", "f", "f">>

\* C5 as amended: the data format as claimed, one "@" + encode(arg) per
\* argument in call order, with execute data for "add" with [2, 3] equal to
\* "add@02@03"; the deploy data of the example is "AABB@<vmMarker>@0100@05@FF":
\* the digits of a hex literal are emitted in upper case.
C5_DataFormat ==
    /\ DataFormat
    /\ ExecuteExample
    /\ DeployExampleCalled =>
        result.tx.data = Text_AABB \o <<"@">> \o VM_TYPE_WASM_VM
                            \o <<"@", "0", "1", "0", "0", "@", "0", "5", "@", "F", "F">>

\* the deploy of the example was built and signed
C5_Witness ==
    /\ DeployExampleCalled
    /\ result.raised = ""
    /\ signed = 1
    /\ result.tx.data = <<"A", "A", "B", "B", "@">> \o VM_TYPE_WASM_VM
                            \o <<"@", "0", "1", "0", "0", "@", "0", "5", "@", "F", "F">>

\* the return-data list query reads from the response
ReturnData ==
    IF Len(call.response.returnData) # 0
    THEN call.response.returnData ELSE call.response.ReturnData

\* C3: query returns one result per entry of the return-data list, result i
\* derived from entry i; an entry that cannot be base64-decoded is reported at
\* its own index as None, which is no QueryResult, and neither fails the call
\* nor stops the decoding of the other entries.
C3_OneResultPerEntry ==
    (pc = "query" /\ \A k \in 1..Len(call.arguments) : ~Malformed(call.arguments[k])) =>
        /\ result.raised = ""
        /\ Len(result.list) = Len(ReturnData)
        /\ \A i \in 1..Len(ReturnData) :
            /\ result.list[i] = interpret_return_data(ReturnData[i])
            /\ (Len(ReturnData[i]) > 0 /\ b64decode(ReturnData[i]).raised # "")
                  => (result.list[i] = None /\ result.list[i].tag # "QueryResult")
            /\ result.list[i].tag = "QueryResult" =>
                  /\ result.list[i].base64 = ReturnData[i]
                  /\ result.list[i].hex = bytes_hex(b64decode(ReturnData[i]).value)
                  /\ result.list[i].number = HexValue(result.list[i].hex)

\* a response of an undecodable entry followed by a valid one was interpreted
C3_Witness ==
    /\ pc = "query"
    /\ call.response.returnData = <<<<"A">>, <<"A", "Q", "=", "=">>>>
    /\ result.list = <<None, QueryResult(<<"A", "Q", "=", "=">>, <<"0", "1">>, 1)>>

====
